---- MODULE Spec2Model ----
(***************************************************************************)
(* State-machine model of RealSenseNode (realsense_node.cpp): the frame    *)
(* dispatch callback, the clock base, the per-dispatch arrival map, the    *)
(* on-demand derived products and the health timer that rebuilds the node. *)
(*                                                                         *)
(* Time: one tick of `now` is one millisecond of host time; device         *)
(* timestamps are milliseconds; host timestamps (ros::Time) are kept in    *)
(* microseconds.                                                           *)
(***************************************************************************)
EXTENDS Integers, FiniteSets, Sequences, TLC

\* ---------------------------------------------------------------- bounds
MaxTime == 3
MaxDev == 1
MaxDispatch == 2
MaxInstance == 2
MaxDevProducts == 0
MaxDispatchProducts == 2

\* inertial samples delivered to one instance
MaxImu == 1

\* calls of the enableStreams service
MaxCalls == 2

\* depth_callback_timeout_, in ticks
Timeout == 2

\* ---------------------------------------------------------------- streams
DEPTH == "DEPTH"
INFRA1 == "INFRA1"
INFRA2 == "INFRA2"
COLOR == "COLOR"
FISHEYE == "FISHEYE"
GYRO == "GYRO"
ACCEL == "ACCEL"

\* keys of _is_frame_arrived, as the constructor creates them
SupportedKeys == {DEPTH, INFRA1, INFRA2, COLOR, FISHEYE, GYRO, ACCEL}

\* the image streams of one sensor module (setupDevice)
ModuleStreams(m) ==
    CASE m = "Stereo Module" -> {DEPTH, INFRA1, INFRA2}
      [] m = "RGB Camera" -> {COLOR}
      [] m = "Wide FOV Camera" -> {FISHEYE}
      [] OTHER -> {}

Modules == {"Stereo Module", "RGB Camera"}

\* the threads that can invoke _frame_callback: one per started image sensor
\* (sens.start(_frame_callback)), or the syncer (_syncer.start(_frame_callback))
Threads == Modules \cup {"syncer"}

\* the sets of streams left enabled after setup
EnableChoices == {{DEPTH, COLOR}, {DEPTH, INFRA1, COLOR}}

VARIABLES
    cfg,                     \* _align_depth, _pointcloud, _sync_frames, _use_ros_time
    _enable,                 \* streams with _enable[s] = true
    _dev,                    \* a device is attached to this instance
    instance,                \* number of constructions of the node so far
    now,                     \* host clock, ticks
    timer,                   \* depth_callback_timer_
    _intialize_time_base,
    _ros_time_base,
    _camera_time_base,
    _prev_camera_time_stamp,
    _is_frame_arrived,
    _seq,
    _depth_aligned_seq,
    _aligned_depth_images,   \* per stream: id of the dispatch that last reprojected into it, 0 = never
    pc,                      \* per thread: position inside _frame_callback
    cur,                     \* per thread: the frame being dispatched
    out,                     \* what the last completed dispatch of this instance did
    nDispatch,               \* dispatches this instance has started
    lastEnter,               \* time the last dispatch of this instance started, -1 = none
    fires,                   \* per instance: times its health timer fired
    al,                      \* the last call of alignFrame: its inputs and what it did
    pcl,                     \* the last point cloud built: its inputs and its points
    flt,                     \* the last call of filterFrame: its input and what it did
    fs,                      \* the last frameset walked by _frame_callback: its frames and what was done
    su,                      \* the last run of the stream setup: what was requested, what the device has, what is left
    es,                      \* the last call of the enableStreams service: its request and its response
    ct,                      \* the constructor activations on the call stack and what each has done
    par,                     \* the last run of the parallel row loop of alignFrame: its two source pixels and the image left
    imu                      \* the inertial-sample callback: its position, what it read and what it published

vars == <<cfg, _enable, _dev, instance, now, timer, _intialize_time_base,
          _ros_time_base, _camera_time_base, _prev_camera_time_stamp,
          _is_frame_arrived, _seq, _depth_aligned_seq, _aligned_depth_images,
          pc, cur, out, nDispatch, lastEnter, fires, al, pcl, flt, fs, su, es, ct, par, imu>>

\* ---------------------------------------------------------------- helpers
NoFrame == [d |-> 0, frames |-> {}, isFrameset |-> FALSE, id |-> 0, rebase |-> FALSE]
\* no call of alignFrame, no point cloud, no call of filterFrame so far
NoCall == [phase |-> "none"]

\* before the first constructor call: no activation, no object
NoConstruction ==
    [stack |-> <<>>, n |-> 0, dev |-> "none", started |-> FALSE, detected |-> {},
     setupBy |-> {}, startedBy |-> {}, state |-> "unbuilt"]

\* filters[0..3].is_enabled = false
ConstructedEnabled == [i \in 1..4 |-> FALSE]

\* the filter flags as constructed, filterFrame not yet called
NoFilterCall == [phase |-> "none", enabled |-> ConstructedEnabled]

NoOut == [id |-> 0, inst |-> 0, th |-> "none", d |-> 0, t |-> 0, aborted |-> FALSE,
          rebase |-> FALSE, frames |-> {}, isFrameset |-> FALSE, arrived |-> {},
          subs |-> {}, msgs |-> {}, reprojected |-> {}]

\* ros::Time::now() when the first instance is constructed, in ticks: wall-clock
\* host time is far larger than any difference of device timestamps
HostEpoch == MaxDev + 1

\* ros::Time::now(), microseconds
RosTimeNow == (HostEpoch + now) * 1000

\* (frame.get_timestamp() - _camera_time_base) / 1000 seconds, in microseconds
ElapsedCamera(d, base) == ((d - base) * 1000000) \div 1000

\* an uninitialised double member (_camera_time_base is not set by the constructor)
Indeterminate == 0..MaxDev

\* variant of getParameters that takes the four parameters as they are given
getParameters_asgiven(raw) ==
    [align_depth |-> raw.align_depth, pointcloud |-> raw.pointcloud,
     sync_frames |-> raw.sync_frames, use_ros_time |-> raw.use_ros_time]

\* getParameters: the four mode flags
getParameters(raw) ==
    LET sync == IF raw.pointcloud \/ raw.align_depth THEN TRUE ELSE raw.sync_frames
        rost == IF sync THEN TRUE ELSE raw.use_ros_time
    IN  [align_depth |-> raw.align_depth, pointcloud |-> raw.pointcloud,
         sync_frames |-> sync, use_ros_time |-> rost]

RawParams == [align_depth : BOOLEAN, pointcloud : BOOLEAN,
              sync_frames : BOOLEAN, use_ros_time : BOOLEAN]

\* variant of setHealthTimers that never starts the timer by itself
setHealthTimers_disarmed(found, t0) == [started |-> FALSE, deadline |-> t0 + Timeout]

\* setHealthTimers: createTimer(depth_callback_timeout_, reset_this,
\* oneshot = false, autostart = !_dev)
setHealthTimers(found, t0) == [started |-> ~found, deadline |-> t0 + Timeout]

\* depth_callback_timer_.start(): no effect on a started timer
timer_start(tm, t0) ==
    IF tm.started THEN tm ELSE [started |-> TRUE, deadline |-> t0 + Timeout]

\* variant of timer_setPeriod that leaves the deadline where it was
timer_setPeriod_keep(tm, t0) == tm

\* depth_callback_timer_.setPeriod(depth_callback_timeout_, true): a started
\* timer is re-armed from now; a stopped timer is not scheduled
timer_setPeriod(tm, t0) ==
    IF tm.started THEN [tm EXCEPT !.deadline = t0 + Timeout] ELSE tm

\* setupStreams, "Streaming IMAGES": every image sensor with an enabled profile
\* is opened and started and starts the timer
setupStreams_timer(tm, t0) ==
    IF \E m \in Modules : ModuleStreams(m) \cap _enable # {}
    THEN timer_start(tm, t0) ELSE tm

\* variant of Constructed whose clock base starts as initialised
Constructed_initialized(found, garbage, t0) ==
    [dev |-> found,
     init |-> TRUE,
     ros_base |-> 0,
     cam_base |-> garbage,
     prev |-> 0,
     arrived |-> [k \in SupportedKeys |-> FALSE],
     seq |-> [k \in SupportedKeys |-> 0],
     aligned_seq |-> [k \in SupportedKeys |-> 0],
     aligned_images |-> [k \in SupportedKeys |-> 0],
     timer |-> IF found THEN setupStreams_timer(setHealthTimers(found, t0), t0)
               ELSE setHealthTimers(found, t0)]

\* the inertial-sample callback has not run
NoSample ==
    [pc |-> "idle", n |-> 0, inst |-> 0, stream |-> "none", d |-> 0, cam |-> 0,
     rosAtCam |-> 0, ros |-> 0, camAtRos |-> 0, last |-> "none", t |-> 0, seq |-> 0]

\* ---------------------------------------------------------------- construction
\* the member values the constructor leaves
Constructed(found, garbage, t0) ==
    [dev |-> found,
     init |-> FALSE,
     ros_base |-> 0,
     cam_base |-> garbage,
     prev |-> 0,
     arrived |-> [k \in SupportedKeys |-> FALSE],
     seq |-> [k \in SupportedKeys |-> 0],
     aligned_seq |-> [k \in SupportedKeys |-> 0],
     aligned_images |-> [k \in SupportedKeys |-> 0],
     timer |-> IF found THEN setupStreams_timer(setHealthTimers(found, t0), t0)
               ELSE setHealthTimers(found, t0)]

Init ==
    /\ \E raw \in RawParams : cfg = getParameters(raw)
    /\ _enable \in EnableChoices
    /\ instance = 1
    /\ now = 0
    /\ \E found \in BOOLEAN, g \in Indeterminate :
         LET c == Constructed(found, g, 0) IN
         /\ _dev = c.dev
         /\ _intialize_time_base = c.init
         /\ _ros_time_base = c.ros_base
         /\ _camera_time_base = c.cam_base
         /\ _prev_camera_time_stamp = c.prev
         /\ _is_frame_arrived = c.arrived
         /\ _seq = c.seq
         /\ _depth_aligned_seq = c.aligned_seq
         /\ _aligned_depth_images = c.aligned_images
         /\ timer = c.timer
    /\ pc = [th \in Threads |-> "idle"]
    /\ cur = [th \in Threads |-> NoFrame]
    /\ out = NoOut
    /\ nDispatch = 0
    /\ lastEnter = -1
    /\ fires = [i \in 1..(MaxInstance + 1) |-> 0]
    /\ al = NoCall
    /\ pcl = NoCall
    /\ flt = NoFilterCall
    /\ fs = NoCall
    /\ su = NoCall
    /\ es = NoCall
    /\ ct = NoConstruction
    /\ par = NoCall
    /\ imu = NoSample

\* resetNode: destroy the node and construct it again in place
resetNode ==
    /\ instance' = instance + 1
    /\ \E found \in BOOLEAN, g \in Indeterminate :
         LET c == Constructed(found, g, now) IN
         /\ _dev' = c.dev
         /\ _intialize_time_base' = c.init
         /\ _ros_time_base' = c.ros_base
         /\ _camera_time_base' = c.cam_base
         /\ _prev_camera_time_stamp' = c.prev
         /\ _is_frame_arrived' = c.arrived
         /\ _seq' = c.seq
         /\ _depth_aligned_seq' = c.aligned_seq
         /\ _aligned_depth_images' = c.aligned_images
         /\ timer' = c.timer
    /\ lastEnter' = -1
    /\ nDispatch' = 0
    /\ out' = NoOut
    /\ UNCHANGED <<imu, par, ct, es, su, fs, al, pcl, flt, cfg, _enable, now, pc, cur>>

\* variant of reset_this: a periodic callback that keeps the instance
reset_this_periodic ==
    /\ timer' = [timer EXCEPT !.deadline = now + Timeout]
    /\ UNCHANGED <<imu, par, ct, es, su, fs, al, pcl, flt, cfg, _enable, _dev, instance, now, _intialize_time_base,
                   _ros_time_base, _camera_time_base, _prev_camera_time_stamp,
                   _is_frame_arrived, _seq, _depth_aligned_seq,
                   _aligned_depth_images, pc, cur, out, nDispatch, lastEnter>>

\* ---------------------------------------------------------------- health timer
\* the timer callback of setHealthTimers
reset_this == resetNode

TimerFire ==
    /\ timer.started
    /\ now >= timer.deadline
    /\ instance < MaxInstance
    /\ fires' = [fires EXCEPT ![instance] = @ + 1]
    /\ reset_this

\* one millisecond passes; a dispatch takes less than that
Tick ==
    /\ now < MaxTime
    /\ \A th \in Threads : pc[th] = "idle"
    /\ timer.started => now < timer.deadline
    /\ now' = now + 1
    /\ UNCHANGED <<imu, par, ct, es, su, fs, al, pcl, flt, cfg, _enable, _dev, instance, timer, _intialize_time_base,
                   _ros_time_base, _camera_time_base, _prev_camera_time_stamp,
                   _is_frame_arrived, _seq, _depth_aligned_seq,
                   _aligned_depth_images, pc, cur, out, nDispatch, lastEnter, fires>>

\* ---------------------------------------------------------------- dispatch
\* the frames a thread can hand to _frame_callback: a sensor started with
\* _frame_callback delivers single frames of its own streams; the syncer
\* delivers framesets (and the callback also accepts a single frame)
FramesOf(th) ==
    IF th = "syncer"
    THEN {[frames |-> F, isFrameset |-> TRUE] : F \in (SUBSET _enable) \ {{}}}
         \cup {[frames |-> {s}, isFrameset |-> FALSE] : s \in _enable}
    ELSE {[frames |-> {s}, isFrameset |-> FALSE] : s \in ModuleStreams(th) \cap _enable}

\* sens.start(_syncer) / sens.start(_frame_callback)
CanDeliver(th) == _dev /\ (cfg.sync_frames <=> th = "syncer")

\* the condition that re-bases the clock
NeedsTimeBase(d) == (_intialize_time_base = FALSE) \/ (_prev_camera_time_stamp > d)

\* variant of CbEnter that does not re-arm the timer on entry
CbEnter_norearm(th, f, d) ==
    /\ pc[th] = "idle"
    /\ CanDeliver(th)
    /\ nDispatch < MaxDispatch
    /\ nDispatch' = nDispatch + 1
    /\ lastEnter' = now
    /\ cur' = [cur EXCEPT ![th] = [d |-> d, frames |-> f.frames,
                                   isFrameset |-> f.isFrameset,
                                   id |-> nDispatch + 1, rebase |-> NeedsTimeBase(d)]]
    /\ pc' = [pc EXCEPT ![th] = IF NeedsTimeBase(d) THEN "flag" ELSE "stamp"]
    /\ UNCHANGED <<imu, par, ct, es, su, fs, al, pcl, flt, cfg, _enable, _dev, instance, now,
                   timer, _intialize_time_base, _ros_time_base, _camera_time_base,
                   _prev_camera_time_stamp, _is_frame_arrived, _seq,
                   _depth_aligned_seq, _aligned_depth_images, out, fires>>

\* _frame_callback, first part: re-arm the timer and test the time base
CbEnter(th, f, d) ==
    /\ pc[th] = "idle"
    /\ CanDeliver(th)
    /\ nDispatch < MaxDispatch
    /\ nDispatch' = nDispatch + 1
    /\ timer' = timer_setPeriod(timer, now)
    /\ lastEnter' = now
    /\ cur' = [cur EXCEPT ![th] = [d |-> d, frames |-> f.frames,
                                   isFrameset |-> f.isFrameset,
                                   id |-> nDispatch + 1, rebase |-> NeedsTimeBase(d)]]
    /\ pc' = [pc EXCEPT ![th] = IF NeedsTimeBase(d) THEN "flag" ELSE "stamp"]
    /\ UNCHANGED <<imu, par, ct, es, su, fs, al, pcl, flt, cfg, _enable, _dev, instance, now, _intialize_time_base,
                   _ros_time_base, _camera_time_base, _prev_camera_time_stamp,
                   _is_frame_arrived, _seq, _depth_aligned_seq,
                   _aligned_depth_images, out, fires>>

\* _frame_callback, inside the time-base test: _intialize_time_base = true
CbSetInitialized(th) ==
    /\ pc[th] = "flag"
    /\ _intialize_time_base' = TRUE
    /\ pc' = [pc EXCEPT ![th] = "rebase"]
    /\ UNCHANGED <<imu, par, ct, es, su, fs, al, pcl, flt, cfg, _enable, _dev, instance, now, timer, _ros_time_base,
                   _camera_time_base, _prev_camera_time_stamp, _is_frame_arrived,
                   _seq, _depth_aligned_seq, _aligned_depth_images, cur, out,
                   nDispatch, lastEnter, fires>>

\* _frame_callback, inside the time-base test: _ros_time_base = ros::Time::now();
\* _camera_time_base = frame.get_timestamp()
CbRebase(th) ==
    /\ pc[th] = "rebase"
    /\ _ros_time_base' = RosTimeNow
    /\ _camera_time_base' = cur[th].d
    /\ pc' = [pc EXCEPT ![th] = "stamp"]
    /\ UNCHANGED <<imu, par, ct, es, su, fs, al, pcl, flt, cfg, _enable, _dev, instance, now, timer, _intialize_time_base,
                   _prev_camera_time_stamp, _is_frame_arrived, _seq,
                   _depth_aligned_seq, _aligned_depth_images, cur, out, nDispatch,
                   lastEnter, fires>>

\* variant of StampOf that always maps the device timestamp
StampOf_mapped(d) == _ros_time_base + ElapsedCamera(d, _camera_time_base)

\* the host timestamp t of a dispatch
StampOf(d) ==
    IF cfg.use_ros_time THEN RosTimeNow
    ELSE _ros_time_base + ElapsedCamera(d, _camera_time_base)

\* updateIsFrameArrived on the map it is handed
updateIsFrameArrived(m, key) ==
    IF key \in DOMAIN m THEN [m EXCEPT ![key] = TRUE] ELSE m

RECURSIVE MarkAll(_, _)
MarkAll(m, F) ==
    IF F = {} THEN m
    ELSE LET k == CHOOSE x \in F : TRUE
         IN  MarkAll(updateIsFrameArrived(m, k), F \ {k})

\* variant of ArrivedMemberAfter that writes the marks back to the member
ArrivedMemberAfter_merged(member, local) == local

\* the member _is_frame_arrived after a dispatch whose local map ended as
\* `local`: the dispatch works on a copy, the member is not written
ArrivedMemberAfter(member, local) == member

Image(s) == <<"image", s>>
Aligned(s) == <<"aligned", s>>
XYZ == <<"points", "xyz">>
XYZRGB == <<"points", "xyzrgb">>

\* variant of AlignCandidates that does not ask for a depth frame or a frameset
AlignCandidates_any(f) ==
    IF cfg.align_depth THEN f.frames \ {DEPTH} ELSE {}

\* the frames handed to publishAlignedDepthToOthers, {} when it is not called
AlignCandidates(f) ==
    IF f.isFrameset /\ cfg.align_depth /\ DEPTH \in f.frames
    THEN f.frames \ {DEPTH} ELSE {}

\* the publishers whose getNumSubscribers() the dispatch of f reads
Queried(f) ==
    {Image(s) : s \in f.frames}
    \cup {Aligned(s) : s \in AlignCandidates(f)}
    \cup (IF cfg.pointcloud THEN {XYZ, XYZRGB} ELSE {})

\* variant of AlignTargets that does not look at the subscribers
AlignTargets_all(f, subs) == AlignCandidates(f)

\* publishAlignedDepthToOthers: the streams reprojected into and published
AlignTargets(f, subs) == {s \in AlignCandidates(f) : Aligned(s) \in subs}

\* variant of PublishesRgbCloud that does not look at the arrival marks
PublishesRgbCloud_unchecked(arr, subs) == cfg.pointcloud /\ XYZRGB \in subs

\* publishRgbToDepthPCTopic / publishDepthPCTopic are called and publish
PublishesRgbCloud(arr, subs) ==
    cfg.pointcloud /\ XYZRGB \in subs /\ arr[COLOR] /\ arr[DEPTH]

PublishesXyzCloud(arr, subs) ==
    cfg.pointcloud /\ XYZ \in subs /\ arr[DEPTH]

\* publishFrame: ++(seq[stream])
publishFrame_seq(seq, S) == [k \in DOMAIN seq |-> IF k \in S THEN seq[k] + 1 ELSE seq[k]]

\* _frame_callback, second part: stamp, mark arrivals, publish, derived products.
\* ros::Time(double) rejects a negative time: the exception ends the dispatch.
CbBody(th, subs) ==
    /\ pc[th] = "stamp"
    /\ _prev_camera_time_stamp' = cur[th].d
    /\ pc' = [pc EXCEPT ![th] = "idle"]
    /\ cur' = [cur EXCEPT ![th] = NoFrame]
    /\ LET f == cur[th]
           t == StampOf(f.d)
       IN
       IF t < 0
       THEN /\ out' = [NoOut EXCEPT !.id = f.id, !.inst = instance, !.th = th,
                                    !.d = f.d, !.t = t, !.aborted = TRUE,
                                    !.rebase = f.rebase, !.frames = f.frames,
                                    !.isFrameset = f.isFrameset]
            /\ UNCHANGED <<_is_frame_arrived, _seq, _depth_aligned_seq,
                           _aligned_depth_images>>
       ELSE LET arr == MarkAll(_is_frame_arrived, f.frames)
                targets == AlignTargets(f, subs)
                seq1 == publishFrame_seq(_seq, f.frames)
                aseq1 == publishFrame_seq(_depth_aligned_seq, targets)
            IN
            /\ _is_frame_arrived' = ArrivedMemberAfter(_is_frame_arrived, arr)
            /\ _seq' = seq1
            /\ _depth_aligned_seq' = aseq1
            /\ _aligned_depth_images' =
                 [k \in SupportedKeys |->
                    IF k \in targets THEN f.id ELSE _aligned_depth_images[k]]
            /\ out' = [id |-> f.id, inst |-> instance, th |-> th, d |-> f.d,
                       t |-> t, aborted |-> FALSE, rebase |-> f.rebase,
                       frames |-> f.frames, isFrameset |-> f.isFrameset,
                       arrived |-> {k \in SupportedKeys : arr[k]},
                       subs |-> subs,
                       msgs |-> {[topic |-> Image(s), seq |-> seq1[s], stamp |-> t] :
                                   s \in {x \in f.frames : Image(x) \in subs}}
                                \cup {[topic |-> Aligned(s), seq |-> aseq1[s], stamp |-> t] :
                                   s \in targets}
                                \cup (IF PublishesRgbCloud(arr, subs)
                                      THEN {[topic |-> XYZRGB, seq |-> 0, stamp |-> t]}
                                      ELSE {})
                                \cup (IF PublishesXyzCloud(arr, subs)
                                      THEN {[topic |-> XYZ, seq |-> 0, stamp |-> t]}
                                      ELSE {}),
                       reprojected |-> targets]
    /\ UNCHANGED <<imu, par, ct, es, su, fs, al, pcl, flt, cfg, _enable, _dev, instance, now, timer, _intialize_time_base,
                   _ros_time_base, _camera_time_base, nDispatch, lastEnter, fires>>

\* ---------------------------------------------------------------- specifications
\* Spec: the node under every mode, every thread and the health timer; the
\* subscribers a dispatch observes are none or all of those it asks about, and a
\* synchronised delivery is the frameset of all enabled streams, of the depth
\* stream alone, or a single depth frame.
FramesCore(th) ==
    IF th = "syncer"
    THEN {f \in FramesOf(th) : f.frames \in {_enable, {DEPTH}}}
    ELSE FramesOf(th)

SubsCore(f) == {{}, Queried(f)}

Next ==
    \/ \E th \in Threads : \E f \in FramesCore(th), d \in 0..MaxDev : CbEnter(th, f, d)
    \/ \E th \in Threads : CbSetInitialized(th)
    \/ \E th \in Threads : CbRebase(th)
    \/ \E th \in Threads : \E subs \in SubsCore(cur[th]) : CbBody(th, subs)
    \/ TimerFire
    \/ Tick

InitCore == Init /\ _enable = {DEPTH, COLOR}

Spec == InitCore /\ [][Next]_vars

\* SpecProducts: synchronised delivery with every frameset, every subscriber
\* pattern of the derived products (the raw image topics are subscribed), device
\* timestamps 0..MaxDevProducts, at most MaxDispatchProducts dispatches, all
\* within one timeout of construction (the health timer does not fire).
ImagePubs(f) == {Image(s) : s \in f.frames}

SubsProducts(f) == {S \cup ImagePubs(f) : S \in SUBSET (Queried(f) \ ImagePubs(f))}

NextProducts ==
    \/ \E th \in Threads : \E f \in FramesOf(th), d \in 0..MaxDevProducts :
         nDispatch < MaxDispatchProducts /\ CbEnter(th, f, d)
    \/ \E th \in Threads : CbSetInitialized(th)
    \/ \E th \in Threads : CbRebase(th)
    \/ \E th \in Threads : \E subs \in SubsProducts(cur[th]) : CbBody(th, subs)

InitProducts == Init /\ cfg.sync_frames

SpecProducts == InitProducts /\ [][NextProducts]_vars

\* ---------------------------------------------------------------- C1
\* C1: at most one execution of _frame_callback is in progress at any time for
\* one node instance, in synchronised and in unsynchronised delivery.
C1_MutualExclusion == Cardinality({th \in Threads : pc[th] # "idle"}) <= 1

\* ---------------------------------------------------------------- C2
\* C2: the health timer of an instance fires once and each firing performs one
\* reconstruction: every earlier instance has fired exactly once, the current
\* instance and the later ones have not fired.
C2_FiresOnce ==
    \A i \in DOMAIN fires : fires[i] = (IF i < instance THEN 1 ELSE 0)

C2_Witness ==
    /\ instance = 2
    /\ fires[1] = 1
    /\ fires[2] = 0
    /\ now >= Timeout

\* ---------------------------------------------------------------- C3
\* C3: a dispatch that starts before the deadline of the started timer moves the
\* deadline to the time of the dispatch plus the timeout, and the timer does not
\* fire less than one timeout after the last dispatch started.
C3_Rearm ==
    [][ /\ (nDispatch' = nDispatch + 1 /\ timer.started /\ now < timer.deadline)
            => (timer'.started /\ timer'.deadline = now + Timeout)
        /\ (instance' # instance)
            => (lastEnter = -1 \/ now >= lastEnter + Timeout) ]_vars

C3_Witness ==
    /\ instance = 1
    /\ fires[1] = 0
    /\ _dev
    /\ lastEnter > 0
    /\ now > Timeout
    /\ timer.deadline = lastEnter + Timeout

\* ---------------------------------------------------------------- C4
\* C4: with the device-clock strategy (_use_ros_time false), two dispatches of
\* one instance completed one after the other, the later started later and with
\* a device timestamp not smaller, get host timestamps that do not decrease and
\* differ by the device difference (ms, here in microseconds), and the later one
\* does not re-base the clock.
C4_DeviceClock ==
    [][ ( /\ ~cfg.use_ros_time
          /\ out.id # 0
          /\ out.id < out'.id
          /\ ~out.aborted
          /\ ~out'.aborted
          /\ out.d <= out'.d )
        => ( /\ out'.t >= out.t
             /\ out'.t - out.t = ElapsedCamera(out'.d, out.d)
             /\ ~out'.rebase ) ]_vars

\* ---------------------------------------------------------------- C5
\* C5: a dispatch whose device timestamp is smaller than that of the dispatch
\* before it replaces the clock base by (host now, its device timestamp) and is
\* stamped with host now.
C5_Rebase ==
    [][ ( /\ out.id # 0
          /\ out.id < out'.id
          /\ out'.d < out.d )
        => ( /\ out'.rebase
             /\ ~out'.aborted
             /\ out'.t = RosTimeNow
             /\ _ros_time_base' = RosTimeNow
             /\ _camera_time_base' = out'.d ) ]_vars

C7_CloudPrerequisites ==
    /\ ~out.aborted
    /\ \A m \in out.msgs :
         /\ m.topic = XYZ => DEPTH \in out.frames
         /\ m.topic = XYZRGB => {DEPTH, COLOR} \subseteq out.frames
    /\ \A s \in out.frames :
         Image(s) \in out.subs => \E m \in out.msgs : m.topic = Image(s)

\* depth, then colour, as two single-frame dispatches: no colour cloud
C7_Witness ==
    /\ out.id = 2
    /\ ~out.isFrameset
    /\ out.frames = {COLOR}
    /\ _seq[DEPTH] = 1
    /\ cfg.pointcloud
    /\ {XYZ, XYZRGB} \subseteq out.subs
    /\ \A m \in out.msgs : m.topic \notin {XYZ, XYZRGB}
    /\ \E m \in out.msgs : m.topic = Image(COLOR)

\* ---------------------------------------------------------------- C8
\* C8: an aligned-depth image for stream s is published only by a frameset
\* dispatch, with alignment enabled, that contains a depth frame and a frame of
\* s, and never for the depth stream.
C8_AlignedNeedsFrameset ==
    \A s \in SupportedKeys :
        (s \in out.reprojected \/ \E m \in out.msgs : m.topic = Aligned(s))
        => ( /\ cfg.align_depth
             /\ out.isFrameset
             /\ DEPTH \in out.frames
             /\ s \in out.frames
             /\ s # DEPTH )

C8_Witness ==
    /\ cfg.align_depth
    /\ out.isFrameset
    /\ out.frames = {DEPTH, COLOR}
    /\ \E m \in out.msgs : m.topic = Aligned(COLOR)
    /\ \A m \in out.msgs : m.topic # Aligned(DEPTH)

\* ---------------------------------------------------------------- C9
\* C9: the member _is_frame_arrived is all-false at every moment, so every
\* dispatch starts from all not-arrived, and the streams a dispatch marks as
\* arrived are streams of frames it contains.
C9_ArrivalPerDispatch ==
    /\ \A k \in DOMAIN _is_frame_arrived : ~_is_frame_arrived[k]
    /\ out.arrived \subseteq out.frames

C9_Witness ==
    /\ out.id = 2
    /\ out.arrived = {DEPTH}
    /\ _seq[COLOR] = 1
    /\ _seq[DEPTH] = 1

\* ---------------------------------------------------------------- C10
\* C10: a dispatch reprojects into stream s only if the aligned output of s has a
\* subscriber, and publishes a point cloud only if point clouds are enabled and
\* that cloud has a subscriber; without a subscriber the aligned buffer and the
\* aligned sequence counter of s are left as they were.
C10_OnDemand ==
    [][ (out'.id # out.id)
        => ( /\ \A s \in SupportedKeys :
                  Aligned(s) \notin out'.subs
                  => ( /\ s \notin out'.reprojected
                       /\ _aligned_depth_images'[s] = _aligned_depth_images[s]
                       /\ _depth_aligned_seq'[s] = _depth_aligned_seq[s] )
             /\ \A m \in out'.msgs :
                  m.topic \in {XYZ, XYZRGB}
                  => (cfg.pointcloud /\ m.topic \in out'.subs) ) ]_vars

\* the second frameset finds no subscriber and keeps what the first one left
C10_Witness ==
    /\ out.id = 2
    /\ out.isFrameset
    /\ out.frames = {DEPTH, COLOR}
    /\ cfg.align_depth
    /\ cfg.pointcloud
    /\ Aligned(COLOR) \notin out.subs
    /\ XYZ \notin out.subs
    /\ XYZRGB \notin out.subs
    /\ _aligned_depth_images[COLOR] = 1
    /\ _depth_aligned_seq[COLOR] = 1
    /\ \A m \in out.msgs : m.topic[1] = "image"

\* ---------------------------------------------------------------- reprojector
MaxW == 2
MaxH == 2

\* _unit_step_size as getParameters reads it: the constructor calls
\* getParameters before it assigns _unit_step_size, and operator[] on the empty
\* map value-initialises the entry
UnitStepSizeInGetParameters == [k \in SupportedKeys |-> 0]

\* getParameters: _aligned_depth_images[s].resize(_width[DEPTH] * _height[DEPTH]
\* * _unit_step_size[DEPTH]), the same for every stream s; never resized again
AlignedBufferBytes(dw, dh) == dw * dh * UnitStepSizeInGetParameters[DEPTH]

\* from_image_frame.get_bytes_per_pixel() of the Z16 depth frame
BytesPerPixel == 2

\* a coordinate of other_pixel for a target extent n, in half pixels
HalfCoords(n) == (-3)..(2 * n)

\* static_cast<int>(v + 0.5f) for v = c / 2: conversion truncates toward zero
ToPixel(c) ==
    LET a == c + 1
    IN  IF a >= 0 THEN a \div 2 ELSE -((-a) \div 2)

\* depth_units / meter_to_mm as <<numerator, denominator>>
DepthFactors == {<<1, 10>>, <<1, 1>>, <<10, 1>>}

\* raw 16-bit depth samples
RawValues == {0, 25, 6554}

\* raw * (depth_units / meter_to_mm) before it is stored
Rescaled(raw, fac) == (raw * fac[1]) \div fac[2]

\* what a float outside the uint16_t range can become when stored (undefined)
OverflowOutcomes(q) == IF q < 65536 THEN {q} ELSE {q % 65536, 65535, 0}

\* sample k of the target image lies inside a buffer of `bytes` bytes
InBuffer(k, bytes) == BytesPerPixel * (k + 1) <= bytes

\* variant of RectOutside that tests the top-left corner only
RectOutside_topleft(x0, y0, x1, y1, W, H) == x0 < 0 \/ y0 < 0

\* alignFrame: the test that skips a source pixel
RectOutside(x0, y0, x1, y1, W, H) == x0 < 0 \/ y0 < 0 \/ x1 >= W \/ y1 >= H

\* alignFrame for a source frame of one pixel: W, H the target resolution,
\* bytes the size of out_vec, px the raw sample and the two projected corners,
\* stored the value the conversion to uint16_t yields, g what memory outside
\* the buffer (or not written by the call) reads as
alignFrame(W, H, bytes, px, fac, stored, g) ==
    LET x0 == ToPixel(px.x0)
        y0 == ToPixel(px.y0)
        x1 == ToPixel(px.x1)
        y1 == ToPixel(px.y1)
        skipped == (px.raw = 0) \/ RectOutside(x0, y0, x1, y1, W, H)
        written == IF skipped THEN {}
                   ELSE {<<x, y>> : x \in x0..x1, y \in y0..y1}
        cleared == H * W * BytesPerPixel
        index(xy) == xy[2] * W + xy[1]
    IN  [phase |-> "done", W |-> W, H |-> H, bytes |-> bytes, raw |-> px.raw,
         fac |-> fac, rect |-> <<x0, y0, x1, y1>>, cleared |-> cleared,
         written |-> written,
         oob |-> (cleared > bytes)
                 \/ (\E xy \in written : ~InBuffer(index(xy), bytes)),
         img |-> [k \in 0..(W * H - 1) |->
                    IF ~InBuffer(k, bytes) THEN g
                    ELSE IF \E xy \in written : index(xy) = k THEN stored
                    ELSE IF BytesPerPixel * (k + 1) <= cleared THEN 0
                    ELSE g]]

SourcePixels(W, H) ==
    [raw : RawValues, x0 : HalfCoords(W), y0 : HalfCoords(H),
     x1 : HalfCoords(W), y1 : HalfCoords(H)]

\* publishAlignedDepthToOthers calls alignFrame on _aligned_depth_images[s]
alignFrameCall ==
    /\ _dev
    /\ cfg.align_depth
    /\ al = NoCall
    /\ \E W \in 1..MaxW, H \in 1..MaxH, dres \in {<<1, 1>>, <<MaxW, MaxH>>},
          fac \in DepthFactors, g \in {0, 7} :
         \E px \in SourcePixels(W, H) :
           \E stored \in OverflowOutcomes(Rescaled(px.raw, fac)) :
             al' = alignFrame(W, H, AlignedBufferBytes(dres[1], dres[2]),
                              px, fac, stored, g)
    /\ UNCHANGED <<imu, par, ct, es, su, fs, pcl, flt, cfg, _enable, _dev, instance, now, timer,
                   _intialize_time_base, _ros_time_base, _camera_time_base,
                   _prev_camera_time_stamp, _is_frame_arrived, _seq,
                   _depth_aligned_seq, _aligned_depth_images, pc, cur, out,
                   nDispatch, lastEnter, fires>>

\* SpecAlign: one call of alignFrame with every target resolution up to
\* MaxW x MaxH and every source pixel.
InitAlign ==
    /\ Init
    /\ _enable = {DEPTH, COLOR}
    /\ _dev
    /\ cfg.align_depth
    /\ cfg.sync_frames
    /\ ~cfg.pointcloud

NextAlign == alignFrameCall

SpecAlign == InitAlign /\ [][NextAlign]_vars

\* ---------------------------------------------------------------- C11
\* C11: when alignFrame clears and writes the aligned buffer of a target stream,
\* the buffer holds at least width * height * 2 bytes of that stream, so no
\* access of the call falls outside it.
C11_BufferHoldsTarget ==
    al.phase = "done"
    => (al.bytes >= al.W * al.H * 2 /\ ~al.oob)

C13_ZeroFrameClears ==
    (al.phase = "done" /\ al.raw = 0)
    => ( /\ al.written = {}
         /\ \A k \in DOMAIN al.img : al.img[k] = 0 )

\* ---------------------------------------------------------------- C14
\* C14: a nonzero source pixel whose rectangle is one target pixel inside the
\* target writes that pixel only, the value is the raw value times the depth
\* scale in millimetres and fits 16 bits, and every other sample is 0.
C14_SinglePixel ==
    ( /\ al.phase = "done"
      /\ al.raw # 0
      /\ al.rect[1] = al.rect[3]
      /\ al.rect[2] = al.rect[4]
      /\ 0 <= al.rect[1] /\ al.rect[1] < al.W
      /\ 0 <= al.rect[2] /\ al.rect[2] < al.H )
    => ( /\ al.written = {<<al.rect[1], al.rect[2]>>}
         /\ Rescaled(al.raw, al.fac) < 65536
         /\ \A k \in DOMAIN al.img :
              al.img[k] = IF k = al.rect[2] * al.W + al.rect[1]
                          THEN Rescaled(al.raw, al.fac) ELSE 0 )

\* ---------------------------------------------------------------- point clouds
\* depth scales in units of 0.1 mm per raw step (0.0001, 0.001 and 0.01 m)
DepthScales == {1, 10, 100}

\* the 5.f of the colour cloud, in units of 0.1 mm
FiveMetres == 50000

\* scaled_depth = raw * _depth_scale_meters
ScaledDepth(raw, scale) == raw * scale

\* rs2_deproject_pixel_to_point with unit focal length, principal point 0 and
\* no distortion: the third coordinate is the depth
Deproject(x, y, depth) == <<x * depth, y * depth, depth>>

\* rs2_transform_point_to_point with the identity rotation
Transform(T, pt) == <<pt[1] + T[1], pt[2] + T[2], pt[3] + T[3]>>

\* depth-to-colour translations, in units of 0.1 mm
Translations == {<<0, 0, 0>>, <<30, 0, 0>>, <<-30, 0, 0>>, <<0, 30, 5>>}

\* rs2_project_point_to_pixel with unit focal length and principal point 0:
\* the two quotients X/Z and Y/Z as float division gives them. A quotient is
\* kept as numerator and denominator (denominator >= 0 here); a zero
\* denominator is +infinity, -infinity or, for 0/0, not a number
Project(pt) == [x |-> [n |-> pt[1], d |-> pt[3]], y |-> [n |-> pt[2], d |-> pt[3]]]

IsNaN(q) == q.d = 0 /\ q.n = 0

\* q < 0.f as a float comparison: false for a NaN
LessThanZero(q) == q.n < 0

\* q >= limit as a float comparison: false for a NaN
AtLeast(q, limit) == IF q.d > 0 THEN q.n >= limit * q.d ELSE q.n > 0

\* the test of the colour cloud for a projection outside the colour frame
OutOfColorFrame(px, Wc, Hc) ==
    \/ LessThanZero(px.y) \/ AtLeast(px.y, Hc)
    \/ LessThanZero(px.x) \/ AtLeast(px.x, Wc)

\* static_cast<int> of a NaN is undefined: builds give INT_MIN (an offset far
\* outside the buffer, written -1 here) or 0
NaNToInt == {-1, 0}

\* variant of ToInt that rounds to the nearest integer
ToInt_nearest(q, nan) == IF q.d > 0 THEN (2 * q.n + q.d) \div (2 * q.d) ELSE nan

\* static_cast<int>(q) for a finite q >= 0; nan for a NaN
ToInt(q, nan) == IF q.d > 0 THEN q.n \div q.d ELSE nan

\* offset = i * 3 + j * width * 3
ColorOffset(px, Wc, nan) ==
    IF IsNaN(px.x) \/ IsNaN(px.y) THEN nan * 3
    ELSE ToInt(px.x, nan) * 3 + ToInt(px.y, nan) * Wc * 3

\* the colour for out-of-bounds colour data
BlankColor == <<96, 157, 198>>

\* content of the colour frame: byte o of a buffer of Wc * Hc * 3 bytes
ColorData(o, Wc, Hc, g) == IF 0 <= o /\ o < Wc * Hc * 3 THEN (o + 1) % 256 ELSE g

\* variant of DepthPoint with the range limit of the colour cloud
DepthPoint_clipped(x, y, raw, scale) ==
    LET pt == Deproject(x, y, ScaledDepth(raw, scale))
    IN  IF pt[3] <= 0 \/ pt[3] > FiveMetres THEN <<0, 0, 0>> ELSE pt

\* publishDepthPCTopic: the point of one depth pixel
DepthPoint(x, y, raw, scale) ==
    LET pt == Deproject(x, y, ScaledDepth(raw, scale))
    IN  IF pt[3] <= 0 THEN <<0, 0, 0>> ELSE pt

\* variant of ColorDepthPoint without the upper range limit
ColorDepthPoint_unclipped(x, y, raw, scale) ==
    LET pt == Deproject(x, y, ScaledDepth(raw, scale))
    IN  IF pt[3] <= 0 THEN <<0, 0, 0>> ELSE pt

\* publishRgbToDepthPCTopic: the point of one depth pixel
ColorDepthPoint(x, y, raw, scale) ==
    LET pt == Deproject(x, y, ScaledDepth(raw, scale))
    IN  IF pt[3] <= 0 \/ pt[3] > FiveMetres THEN <<0, 0, 0>> ELSE pt

\* publishRgbToDepthPCTopic: the colour of one point
PointColor(pt, T, Wc, Hc, nan, g) ==
    LET px == Project(Transform(T, pt))
        o == ColorOffset(px, Wc, nan)
    IN  IF OutOfColorFrame(px, Wc, Hc)
        THEN [px |-> px, rgb |-> BlankColor, read |-> {}]
        ELSE [px |-> px,
              rgb |-> <<ColorData(o, Wc, Hc, g), ColorData(o + 1, Wc, Hc, g),
                        ColorData(o + 2, Wc, Hc, g)>>,
              read |-> {o, o + 1, o + 2}]

\* depth frames: one pixel of value raw in a frame of value bg, row-major
DepthFrames(W, H) ==
    {[k \in 1..(W * H) |-> IF k = hot THEN raw ELSE bg] :
        hot \in 1..(W * H), raw \in RawValues, bg \in {0, 25}}

\* the loops over y and x: element k is pixel x = (k-1) % W, y = (k-1) \div W,
\* read through the pointer that advances by one per pixel
publishDepthPCTopic(W, H, frame, scale) ==
    [phase |-> "done", kind |-> "xyz", W |-> W, H |-> H, frame |-> frame,
     scale |-> scale,
     points |-> [k \in 1..(W * H) |->
                   DepthPoint((k - 1) % W, (k - 1) \div W, frame[k], scale)]]

publishRgbToDepthPCTopic(W, H, frame, scale, T, Wc, Hc, nan, g) ==
    LET pts == [k \in 1..(W * H) |->
                  ColorDepthPoint((k - 1) % W, (k - 1) \div W, frame[k], scale)]
    IN  [phase |-> "done", kind |-> "xyzrgb", W |-> W, H |-> H, frame |-> frame,
         scale |-> scale, T |-> T, Wc |-> Wc, Hc |-> Hc,
         points |-> pts,
         colors |-> [k \in 1..(W * H) |-> PointColor(pts[k], T, Wc, Hc, nan, g)]]

publishDepthPCTopicCall ==
    /\ _dev /\ cfg.pointcloud /\ pcl = NoCall
    /\ \E W \in 1..MaxW, H \in 1..MaxH, scale \in DepthScales :
         \E frame \in DepthFrames(W, H) :
           pcl' = publishDepthPCTopic(W, H, frame, scale)
    /\ UNCHANGED <<imu, par, ct, es, su, fs, al, flt, cfg, _enable, _dev, instance, now, timer,
                   _intialize_time_base, _ros_time_base, _camera_time_base,
                   _prev_camera_time_stamp, _is_frame_arrived, _seq,
                   _depth_aligned_seq, _aligned_depth_images, pc, cur, out,
                   nDispatch, lastEnter, fires>>

publishRgbToDepthPCTopicCall ==
    /\ _dev /\ cfg.pointcloud /\ pcl = NoCall
    /\ \E W \in 1..MaxW, H \in 1..MaxH, scale \in DepthScales, T \in Translations,
          cres \in {<<1, 1>>, <<MaxW, MaxH>>}, nan \in NaNToInt, g \in {0, 7} :
         \E frame \in DepthFrames(W, H) :
           pcl' = publishRgbToDepthPCTopic(W, H, frame, scale, T, cres[1], cres[2], nan, g)
    /\ UNCHANGED <<imu, par, ct, es, su, fs, al, flt, cfg, _enable, _dev, instance, now, timer,
                   _intialize_time_base, _ros_time_base, _camera_time_base,
                   _prev_camera_time_stamp, _is_frame_arrived, _seq,
                   _depth_aligned_seq, _aligned_depth_images, pc, cur, out,
                   nDispatch, lastEnter, fires>>

InitCloud ==
    /\ Init
    /\ _enable = {DEPTH, COLOR}
    /\ _dev
    /\ cfg.pointcloud

NextCloud ==
    \/ publishDepthPCTopicCall
    \/ publishRgbToDepthPCTopicCall

SpecCloud == InitCloud /\ [][NextCloud]_vars

\* ---------------------------------------------------------------- C15
\* C15: the depth-only cloud has exactly width * height points, point k for
\* depth pixel k in row-major order; a pixel of raw value 0 (or of depth
\* coordinate <= 0) gives the zero vector in its slot, and a pixel of positive
\* raw value gives a point whose depth coordinate is positive and equals
\* raw * depth scale.
C15_DepthCloud ==
    (pcl.phase = "done" /\ pcl.kind = "xyz")
    => ( /\ DOMAIN pcl.points = 1..(pcl.W * pcl.H)
         /\ \A k \in 1..(pcl.W * pcl.H) :
              /\ pcl.frame[k] * pcl.scale <= 0 => pcl.points[k] = <<0, 0, 0>>
              /\ pcl.frame[k] > 0 =>
                   /\ pcl.points[k][3] > 0
                   /\ pcl.points[k][3] = pcl.frame[k] * pcl.scale
                   /\ pcl.points[k][1] = ((k - 1) % pcl.W) * pcl.points[k][3]
                   /\ pcl.points[k][2] = ((k - 1) \div pcl.W) * pcl.points[k][3] )

\* a depth-only cloud of a frame with a zero pixel and a pixel beyond 5 m
C15_Witness ==
    /\ pcl.phase = "done"
    /\ pcl.kind = "xyz"
    /\ pcl.W = 2
    /\ pcl.H = 2
    /\ \E k \in 1..4 : pcl.frame[k] = 0 /\ pcl.points[k] = <<0, 0, 0>>
    /\ \E k \in 1..4 : pcl.points[k][3] > FiveMetres

\* ---------------------------------------------------------------- C16
\* C16: in the colour cloud every point whose projection into the colour camera
\* has x < 0, y < 0, x >= colour width or y >= colour height gets the colour
\* (96, 157, 198), and every other point gets the three bytes read at an
\* offset inside the colour buffer.
C16_ColorLookup ==
    (pcl.phase = "done" /\ pcl.kind = "xyzrgb")
    => \A k \in 1..(pcl.W * pcl.H) :
         LET c == pcl.colors[k] IN
         IF \/ LessThanZero(c.px.x) \/ LessThanZero(c.px.y)
            \/ AtLeast(c.px.x, pcl.Wc) \/ AtLeast(c.px.y, pcl.Hc)
         THEN c.rgb = <<96, 157, 198>> /\ c.read = {}
         ELSE c.read \subseteq 0..(pcl.Wc * pcl.Hc * 3 - 1)

\* ---------------------------------------------------------------- C17
\* C17: in the colour cloud a pixel whose depth is <= 0 or above 5 m gives the
\* zero vector wherever it would map in the colour image; the depth-only cloud
\* has no upper limit, a point beyond 5 m keeps its coordinates.
C17_RangeClip ==
    pcl.phase = "done"
    => \A k \in 1..(pcl.W * pcl.H) :
         LET z == pcl.frame[k] * pcl.scale
         IN  IF pcl.kind = "xyzrgb"
             THEN /\ (z <= 0 \/ z > FiveMetres) => pcl.points[k] = <<0, 0, 0>>
                  /\ (z > 0 /\ z <= FiveMetres) => pcl.points[k][3] = z
             ELSE z > FiveMetres =>
                    pcl.points[k] = <<((k - 1) % pcl.W) * z, ((k - 1) \div pcl.W) * z, z>>

\* a colour cloud whose pixel beyond 5 m would map inside the colour frame
C17_Witness ==
    /\ pcl.phase = "done"
    /\ pcl.kind = "xyzrgb"
    /\ pcl.T = <<0, 0, 0>>
    /\ pcl.Wc = pcl.W
    /\ pcl.Hc = pcl.H
    /\ \E k \in 1..(pcl.W * pcl.H) :
         /\ pcl.frame[k] * pcl.scale > FiveMetres
         /\ pcl.points[k] = <<0, 0, 0>>

\* ---------------------------------------------------------------- filters
\* variant of filters with the two smoothing stages exchanged
filters_swapped == <<"Depth_to_Disparity", "Temporal", "Spatial", "Disparity_to_Depth">>

\* the vector filters in the order of the four emplace_back calls
filters == <<"Depth_to_Disparity", "Spatial", "Temporal", "Disparity_to_Depth">>

\* a frame as the sensor delivers it: depth frames hold depth values
RawFrame(s) == [stream |-> s, domain |-> "depth", applied |-> <<>>]

\* filter.filter.process(frame): the conversions change the domain of a frame
\* of the domain they convert from, the smoothing stages keep it
Process(stage, fr) ==
    [fr EXCEPT !.applied = Append(@, stage),
               !.domain = IF stage = "Depth_to_Disparity" THEN "disparity"
                          ELSE IF stage = "Disparity_to_Depth" THEN "depth"
                          ELSE @]

\* filterFrame: the loop over filters, from element i on
RECURSIVE filterFrom(_, _, _)
filterFrom(i, enabled, fr) ==
    IF i > Len(filters) THEN fr
    ELSE filterFrom(i + 1, enabled,
                    IF enabled[i] THEN Process(filters[i], fr) ELSE fr)

filterFrame(enabled, fr) == filterFrom(1, enabled, fr)

\* is_enabled of one stage is set from outside the callback
SetFilterEnabled ==
    /\ _dev
    /\ \E i \in 1..4, b \in BOOLEAN :
         /\ flt.enabled[i] # b
         /\ flt' = [flt EXCEPT !.enabled[i] = b]
    /\ UNCHANGED <<imu, par, ct, es, su, fs, al, pcl, cfg, _enable, _dev, instance, now, timer,
                   _intialize_time_base, _ros_time_base, _camera_time_base,
                   _prev_camera_time_stamp, _is_frame_arrived, _seq,
                   _depth_aligned_seq, _aligned_depth_images, pc, cur, out,
                   nDispatch, lastEnter, fires>>

\* _frame_callback: if (stream_type == RS2_STREAM_DEPTH) filterFrame(f), then
\* publishFrame(f, ...)
CbFilterFrame ==
    /\ _dev
    /\ \E s \in _enable \cap {DEPTH, COLOR, INFRA1} :
         flt' = [phase |-> "done", enabled |-> flt.enabled, used |-> flt.enabled,
                 in |-> RawFrame(s),
                 out |-> IF s = DEPTH THEN filterFrame(flt.enabled, RawFrame(s))
                         ELSE RawFrame(s)]
    /\ UNCHANGED <<imu, par, ct, es, su, fs, al, pcl, cfg, _enable, _dev, instance, now, timer,
                   _intialize_time_base, _ros_time_base, _camera_time_base,
                   _prev_camera_time_stamp, _is_frame_arrived, _seq,
                   _depth_aligned_seq, _aligned_depth_images, pc, cur, out,
                   nDispatch, lastEnter, fires>>

InitFilter ==
    /\ Init
    /\ _enable = {DEPTH, COLOR}
    /\ _dev

NextFilter ==
    \/ SetFilterEnabled
    \/ CbFilterFrame

SpecFilter == InitFilter /\ [][NextFilter]_vars

\* ---------------------------------------------------------------- C18
\* C18: for every combination of the four enable flags a depth frame gets
\* exactly the enabled stages, in the order depth-to-disparity, spatial,
\* temporal, disparity-to-depth; frames of other streams get no stage; with
\* all flags off, as constructed, the depth frame is published unchanged.
C18_StagesInOrder ==
    flt.phase = "done"
    => LET order == <<"Depth_to_Disparity", "Spatial", "Temporal", "Disparity_to_Depth">>
           on(st) == \E i \in 1..4 : order[i] = st /\ flt.used[i]
       IN  /\ flt.in.stream = DEPTH =>
                flt.out.applied = SelectSeq(order, on)
           /\ flt.in.stream # DEPTH => flt.out = flt.in
           /\ flt.used = [i \in 1..4 |-> FALSE] => flt.out = flt.in

\* a depth frame filtered with the two smoothing stages on and a conversion off
C18_Witness ==
    /\ flt.phase = "done"
    /\ flt.in.stream = DEPTH
    /\ flt.used = <<TRUE, TRUE, TRUE, FALSE>>
    /\ flt.out.applied = <<"Depth_to_Disparity", "Spatial", "Temporal">>

\* ---------------------------------------------------------------- C19
\* C19: for every reachable combination of enable flags a smoothing stage
\* (spatial, temporal) is applied only after the depth-to-disparity conversion
\* and before the disparity-to-depth conversion, and the frame leaving the
\* chain is in the depth domain.
C19_SmoothingInDisparity ==
    (flt.phase = "done" /\ flt.in.stream = DEPTH)
    => LET a == flt.out.applied IN
       /\ \A i \in 1..Len(a) :
            a[i] \in {"Spatial", "Temporal"} =>
              /\ \E j \in 1..(i - 1) : a[j] = "Depth_to_Disparity"
              /\ \A j \in 1..(i - 1) : a[j] # "Disparity_to_Depth"
       /\ flt.out.domain = "depth"

\* ---------------------------------------------------------------- C20
\* C20: within one node instance the sequence counter of a stream changes only
\* when a message of that stream is published, and then by exactly one, the
\* message carrying the new value: published messages of a stream have
\* consecutive sequence numbers.
C20_SeqPerPublish ==
    [][instance' = instance =>
         \A s \in SupportedKeys :
            _seq'[s] # _seq[s] =>
               /\ _seq'[s] = _seq[s] + 1
               /\ \E m \in out'.msgs : m.topic = Image(s) /\ m.seq = _seq'[s]]_vars

\* ---------------------------------------------------------------- frameset walk
\* a stream key that is not a key of _is_frame_arrived (infrared, index 0)
INFRA0 == "INFRA0"

\* the framesets handed to _frame_callback, in the order of iteration:
\* sequences of distinct keys, at most one of them unsupported
RECURSIVE Orderings(_)
Orderings(F) ==
    IF F = {} THEN {<<>>}
    ELSE UNION {{<<k>> \o r : r \in Orderings(F \ {k})} : k \in F}

Framesets == UNION {Orderings(F) : F \in (SUBSET (_enable \cup {INFRA0})) \ {{}}}

\* setupPublishers: the keys of _image_publishers and _info_publisher
PublisherKeys == _enable \cap {DEPTH, INFRA1, INFRA2, COLOR, FISHEYE}

\* the loop over the frames of a frameset, from frame i on. For each frame:
\* updateIsFrameArrived (reports a key that is not in the map and returns),
\* then publishFrame, whose info_publishers.at(stream) throws std::out_of_range
\* for a key without publisher; the exception leaves the loop
RECURSIVE frameLoop(_, _, _, _)
frameLoop(i, frames, subs, acc) ==
    IF i > Len(frames) THEN acc
    ELSE LET k == frames[i]
             marked == updateIsFrameArrived(acc.arrived, k)
         IN  IF k \notin PublisherKeys
             THEN [acc EXCEPT !.arrived = marked,
                              !.reported = @ \cup (IF k \in DOMAIN acc.arrived THEN {} ELSE {k}),
                              !.thrown = TRUE]
             ELSE frameLoop(i + 1, frames, subs,
                      [acc EXCEPT !.arrived = marked,
                                  !.reported = @ \cup (IF k \in DOMAIN acc.arrived THEN {} ELSE {k}),
                                  !.walked = @ \cup {k},
                                  !.published = @ \cup (IF Image(k) \in subs THEN {k} ELSE {}),
                                  !.order = IF Image(k) \in subs THEN Append(@, k) ELSE @])

Range(q) == {q[i] : i \in 1..Len(q)}

\* the subsequence of q of the elements in S
RECURSIVE SelectIn(_, _)
SelectIn(q, S) ==
    IF q = <<>> THEN <<>>
    ELSE IF Head(q) \in S THEN <<Head(q)>> \o SelectIn(Tail(q), S)
    ELSE SelectIn(Tail(q), S)

\* variant of PublishLog that stamps the point clouds one microsecond later
PublishLog_restamped(images, aligned, clouds, t) ==
    [i \in 1..Len(images) |-> [topic |-> Image(images[i]), stamp |-> t]]
    \o [i \in 1..Len(aligned) |-> [topic |-> Aligned(aligned[i]), stamp |-> t]]
    \o [i \in 1..Len(clouds) |-> [topic |-> clouds[i], stamp |-> t + 1]]

\* the messages one dispatch publishes, in the order of the calls: publishFrame
\* inside the frameset loop, publishAlignedDepthToOthers after it, then the two
\* point clouds; each call is handed the t of the dispatch
PublishLog(images, aligned, clouds, t) ==
    [i \in 1..Len(images) |-> [topic |-> Image(images[i]), stamp |-> t]]
    \o [i \in 1..Len(aligned) |-> [topic |-> Aligned(aligned[i]), stamp |-> t]]
    \o [i \in 1..Len(clouds) |-> [topic |-> clouds[i], stamp |-> t]]

\* _frame_callback on a frameset of device timestamp d, from the computation
\* of t to the end of the try block; the catch reports the exception and returns
CbFrameset(frames, subs, d) ==
    LET t == StampOf(d)
        loop == frameLoop(1, frames, subs,
                          [arrived |-> _is_frame_arrived, reported |-> {},
                           walked |-> {}, published |-> {}, thrown |-> FALSE,
                           order |-> <<>>])
        f == [frames |-> Range(frames) \cap SupportedKeys, isFrameset |-> TRUE]
        aligned == IF loop.thrown THEN <<>> ELSE SelectIn(frames, AlignTargets(f, subs))
        clouds == IF loop.thrown THEN <<>>
                  ELSE (IF PublishesRgbCloud(loop.arrived, subs) THEN <<XYZRGB>> ELSE <<>>)
                       \o (IF PublishesXyzCloud(loop.arrived, subs) THEN <<XYZ>> ELSE <<>>)
    IN  [phase |-> "done", frames |-> frames, subs |-> subs, t |-> t,
         log |-> PublishLog(loop.order, aligned, clouds, t),
         arrived |-> {k \in DOMAIN loop.arrived : loop.arrived[k]},
         reported |-> loop.reported,
         published |-> loop.published,
         thrown |-> loop.thrown,
         alignEvaluated |-> ~loop.thrown /\ cfg.align_depth /\ DEPTH \in Range(frames),
         aligned |-> IF loop.thrown THEN {} ELSE AlignTargets(f, subs),
         cloudsEvaluated |-> ~loop.thrown /\ cfg.pointcloud,
         clouds |-> IF loop.thrown THEN {}
                    ELSE (IF PublishesRgbCloud(loop.arrived, subs) THEN {XYZRGB} ELSE {})
                         \cup (IF PublishesXyzCloud(loop.arrived, subs) THEN {XYZ} ELSE {})]

\* the subscribed topics at the time of the dispatch
SubsFrameset ==
    SUBSET ({Image(DEPTH), Image(COLOR), Aligned(COLOR), XYZ, XYZRGB})

CbFramesetCall ==
    /\ _dev /\ cfg.sync_frames /\ fs = NoCall
    /\ \E frames \in Framesets, subs \in SubsFrameset, d \in 0..MaxDev :
         fs' = CbFrameset(frames, subs, d)
    /\ UNCHANGED <<imu, par, ct, es, su, al, pcl, flt, cfg, _enable, _dev, instance, now, timer,
                   _intialize_time_base, _ros_time_base, _camera_time_base,
                   _prev_camera_time_stamp, _is_frame_arrived, _seq,
                   _depth_aligned_seq, _aligned_depth_images, pc, cur, out,
                   nDispatch, lastEnter, fires>>

InitFrameset ==
    /\ Init
    /\ _enable = {DEPTH, COLOR}
    /\ _dev
    /\ cfg.sync_frames

NextFrameset == CbFramesetCall

SpecFrameset == InitFrameset /\ [][NextFrameset]_vars

\* ---------------------------------------------------------------- C21
\* C21: a frame whose stream key is not supported is reported and ignored
\* within its dispatch: it is not marked arrived, the other frames of the
\* frameset are still published (to their subscribers) and the aligned depth
\* and the point clouds of the dispatch are still evaluated.
C21_UnsupportedIgnored ==
    (fs.phase = "done" /\ INFRA0 \in Range(fs.frames))
    => ( /\ INFRA0 \in fs.reported
         /\ INFRA0 \notin fs.arrived
         /\ \A k \in Range(fs.frames) \ {INFRA0} :
              Image(k) \in fs.subs => k \in fs.published
         /\ cfg.align_depth /\ DEPTH \in Range(fs.frames) => fs.alignEvaluated
         /\ cfg.pointcloud => fs.cloudsEvaluated )

\* ---------------------------------------------------------------- stream setup
\* IMAGE_STREAMS and HID_STREAMS
ImageStreams == {DEPTH, INFRA1, INFRA2, COLOR, FISHEYE}
HidStreams == {GYRO, ACCEL}

\* setupDevice: the keys of _sensors for the modules the device reports
SensorKeys(mods) ==
    UNION {CASE m = "Stereo Module" -> {DEPTH, INFRA1, INFRA2}
             [] m = "Coded-Light Depth Sensor" -> {DEPTH, INFRA1}
             [] m = "RGB Camera" -> {COLOR}
             [] m = "Wide FOV Camera" -> {FISHEYE}
             [] m = "Motion Module" -> {GYRO, ACCEL}
             [] OTHER -> {} : m \in mods}

\* setupDevice, "Update enable map": image and HID streams without a sensor
\* are reported and disabled
setupDevice_enable(en, mods) == en \cap SensorKeys(mods)

\* enable_devices: an enabled image stream gets the first profile that matches
\* its format, size and rate; one without such a profile is reported and disabled
enable_devices(en, matching) ==
    [enable |-> (en \ ImageStreams) \cup (en \cap ImageStreams \cap matching),
     profiles |-> en \cap ImageStreams \cap matching,
     reported |-> (en \cap ImageStreams) \ matching]

\* setupStreams, "Streaming HID": an enabled HID stream gets the first profile
\* that matches its rate and format; nothing is done for one without
setupStreams_hid(en, matching) == en \cap HidStreams \cap matching

\* publishTopics: setupDevice, then setupStreams
setup(req, mods, matching) ==
    LET e1 == setupDevice_enable(req, mods)
        d == enable_devices(e1, matching)
    IN  [phase |-> "done", requested |-> req, modules |-> mods,
         matching |-> matching,
         sensors |-> SensorKeys(mods),
         enable |-> d.enable,
         profiles |-> d.profiles \cup setupStreams_hid(d.enable, matching),
         reported |-> (req \ e1) \cup d.reported]

\* the streams a configuration asks for
RequestKeys == {DEPTH, INFRA2, COLOR, GYRO, ACCEL}

\* the sensor modules of the attached device
DeviceModules ==
    {{"Stereo Module", "RGB Camera"},
     {"Stereo Module", "RGB Camera", "Motion Module"},
     {"Coded-Light Depth Sensor", "RGB Camera"},
     {"Stereo Module"}}

setupCall ==
    /\ _dev /\ su = NoCall
    /\ \E req \in SUBSET RequestKeys, mods \in DeviceModules,
          matching \in SUBSET RequestKeys :
         /\ (GYRO \in req) <=> (ACCEL \in req)
         /\ su' = setup(req, mods, matching)
    /\ UNCHANGED <<imu, par, ct, es, fs, al, pcl, flt, cfg, _enable, _dev, instance, now, timer,
                   _intialize_time_base, _ros_time_base, _camera_time_base,
                   _prev_camera_time_stamp, _is_frame_arrived, _seq,
                   _depth_aligned_seq, _aligned_depth_images, pc, cur, out,
                   nDispatch, lastEnter, fires>>

InitSetup ==
    /\ Init
    /\ _enable = {DEPTH, COLOR}
    /\ _dev

NextSetup == setupCall

SpecSetup == InitSetup /\ [][NextSetup]_vars

\* ---------------------------------------------------------------- C22
\* C22: after setup every stream still enabled has a sensor on the device and
\* a negotiated profile, and a requested stream lacking either one has been
\* reported and disabled.
C22_EnabledHaveSensorAndProfile ==
    su.phase = "done"
    => ( /\ \A k \in su.enable : k \in su.sensors /\ k \in su.profiles
         /\ \A k \in su.requested :
              (k \notin su.sensors \/ k \notin su.matching)
                => (k \notin su.enable /\ k \in su.reported) )

\* ---------------------------------------------------------------- enableStreams
\* IMAGE_STREAMS as the vector of vectors it is: one group per image sensor
ImageStreamGroups == <<<<DEPTH, INFRA1, INFRA2>>, <<COLOR>>, <<FISHEYE>>>>

\* variant of timer_stop that leaves the timer running
timer_stop_ignored(tm) == tm

\* depth_callback_timer_.stop()
timer_stop(tm) == [tm EXCEPT !.started = FALSE]

\* variant of enableLoop that returns at the first failure
RECURSIVE enableLoop_return(_, _, _, _, _)
enableLoop_return(i, data, sensors, failing, acc) ==
    IF i > Len(ImageStreamGroups) THEN acc
    ELSE LET g == ImageStreamGroups[i][1] IN
         IF g \notin sensors
         THEN enableLoop_return(i + 1, data, sensors, failing, acc)
         ELSE IF g \in failing
         THEN [acc EXCEPT !.attempted = Append(@, g),
                          !.message = Append(@, [op |-> IF data THEN "start" ELSE "stop", sensor |-> g]),
                          !.success = FALSE]
         ELSE enableLoop_return(i + 1, data, sensors, failing,
                  [acc EXCEPT !.attempted = Append(@, g),
                              !.timerOps = Append(@, IF data THEN "start" ELSE "stop")])

\* the loop of enableStreams over the groups, from group i on: the sensor of a
\* group is _sensors[streams.front()]; a group without sensor is passed over;
\* an rs2::error of start or stop is caught inside the loop body
RECURSIVE enableLoop(_, _, _, _, _)
enableLoop(i, data, sensors, failing, acc) ==
    IF i > Len(ImageStreamGroups) THEN acc
    ELSE LET g == ImageStreamGroups[i][1] IN
         IF g \notin sensors
         THEN enableLoop(i + 1, data, sensors, failing, acc)
         ELSE enableLoop(i + 1, data, sensors, failing,
                  [acc EXCEPT !.attempted = Append(@, g),
                              !.message = IF g \in failing
                                          THEN Append(@, [op |-> IF data THEN "start" ELSE "stop",
                                                          sensor |-> g])
                                          ELSE @,
                              !.success = IF g \in failing THEN FALSE ELSE @,
                              !.timerOps = Append(@, IF data THEN "start" ELSE "stop")])

\* enableStreams: res.success = true, the loop, return true
enableStreams(data, sensors, failing) ==
    enableLoop(1, data, sensors, failing,
               [success |-> TRUE, message |-> <<>>, attempted |-> <<>>, timerOps |-> <<>>])

\* the timer after the start / stop calls of one enableStreams
RECURSIVE timerAfter(_, _, _)
timerAfter(tm, ops, t0) ==
    IF ops = <<>> THEN tm
    ELSE timerAfter(IF Head(ops) = "start" THEN timer_start(tm, t0) ELSE timer_stop(tm),
                    Tail(ops), t0)

enableStreamsCall ==
    /\ _dev /\ es = NoCall
    /\ \E data \in BOOLEAN, mods \in DeviceModules :
         \E failing \in SUBSET (SensorKeys(mods) \cap {DEPTH, COLOR, FISHEYE}) :
           LET res == enableStreams(data, SensorKeys(mods), failing) IN
           /\ es' = [phase |-> "done", data |-> data, sensors |-> SensorKeys(mods),
                     failing |-> failing, success |-> res.success,
                     message |-> res.message, attempted |-> res.attempted]
           /\ timer' = timerAfter(timer, res.timerOps, now)
    /\ UNCHANGED <<imu, par, ct, su, fs, al, pcl, flt, cfg, _enable, _dev, instance, now,
                   _intialize_time_base, _ros_time_base, _camera_time_base,
                   _prev_camera_time_stamp, _is_frame_arrived, _seq,
                   _depth_aligned_seq, _aligned_depth_images, pc, cur, out,
                   nDispatch, lastEnter, fires>>

InitEnable ==
    /\ Init
    /\ _dev

NextEnable == enableStreamsCall

SpecEnable == InitEnable /\ [][NextEnable]_vars

\* ---------------------------------------------------------------- C23
\* C23: in enableStreams a start or stop failure of one sensor is reported to
\* the caller (success = false and a message naming the failure), the start or
\* stop of every other sensor is still attempted, and success is true exactly
\* when no sensor operation failed.
C23_FailureReported ==
    es.phase = "done"
    => ( /\ Range(es.attempted) = es.sensors \cap {DEPTH, COLOR, FISHEYE}
         /\ es.success <=> (es.failing = {})
         /\ \A g \in es.failing :
              \E i \in 1..Len(es.message) :
                 es.message[i] = [op |-> IF es.data THEN "start" ELSE "stop", sensor |-> g]
         /\ Len(es.message) = Cardinality(es.failing) )

\* the first of two sensors failed to start and the second was still started
C23_Witness ==
    /\ es.phase = "done"
    /\ es.data
    /\ es.failing = {DEPTH}
    /\ es.attempted = <<DEPTH, COLOR>>
    /\ ~es.success

\* ---------------------------------------------------------------- constructor
\* constructor activations that may be on the stack at once
MaxNest == 3

\* what getDevice finds: no device, a device whose product id has a parameter
\* manager, one whose product id has none, or a supported product with a
\* module setupDevice does not know
DeviceStates == {"none", "supported", "unsupported", "badmodule"}

\* the constructor up to and including setHealthTimers and the test of _dev,
\* entered as activation id: without device it returns at once
ctorEnter(c, dev, id) ==
    [c EXCEPT !.n = id, !.dev = dev, !.started = FALSE,
              !.stack = IF dev = "none" THEN @ ELSE <<[id |-> id, pc |-> "params"]>> \o @]

\* what follows the return of a constructor activation: the activation below
\* it on the stack is inside resetNode, called from the catch block of
\* createParamsManager, and goes on to publishTopics; without one the node is built
ctorReturned(c) ==
    IF c.stack = <<>>
    THEN [c EXCEPT !.state = IF c.dev = "none" THEN "waiting" ELSE "live"]
    ELSE [c EXCEPT !.stack = <<[id |-> Head(@).id, pc |-> "publish"]>> \o Tail(@)]

\* the first construction of the node
CtorFirst ==
    /\ ct.state = "unbuilt"
    /\ \E dev \in DeviceStates :
         ct' = LET c == ctorEnter([ct EXCEPT !.state = "building"], dev, 1)
               IN  IF dev = "none" THEN ctorReturned(c) ELSE c
    /\ UNCHANGED <<imu, par, es, su, fs, al, pcl, flt, cfg, _enable, _dev, instance, now, timer,
                   _intialize_time_base, _ros_time_base, _camera_time_base,
                   _prev_camera_time_stamp, _is_frame_arrived, _seq,
                   _depth_aligned_seq, _aligned_depth_images, pc, cur, out,
                   nDispatch, lastEnter, fires>>

\* createParamsManager: param_makers.at(pid) throws for an unknown product id
\* and the catch block is entered
createParamsManager ==
    /\ ct.state = "building"
    /\ ct.stack # <<>>
    /\ Head(ct.stack).pc = "params"
    /\ ct' = IF ct.dev = "unsupported"
             THEN [ct EXCEPT !.detected = @ \cup {Head(ct.stack).id},
                             !.stack = <<[id |-> Head(@).id, pc |-> "catch"]>> \o Tail(@)]
             ELSE [ct EXCEPT !.stack = <<[id |-> Head(@).id, pc |-> "publish"]>> \o Tail(@)]
    /\ UNCHANGED <<imu, par, es, su, fs, al, pcl, flt, cfg, _enable, _dev, instance, now, timer,
                   _intialize_time_base, _ros_time_base, _camera_time_base,
                   _prev_camera_time_stamp, _is_frame_arrived, _seq,
                   _depth_aligned_seq, _aligned_depth_images, pc, cur, out,
                   nDispatch, lastEnter, fires>>

\* the catch block of createParamsManager: sleep, then resetNode, which
\* destroys the object and runs the constructor again on the same storage
createParamsManager_resetNode ==
    /\ ct.state = "building"
    /\ ct.stack # <<>>
    /\ Head(ct.stack).pc = "catch"
    /\ ct.n < MaxNest
    /\ \E dev \in DeviceStates :
         ct' = LET c == ctorEnter([ct EXCEPT !.stack =
                                      <<[id |-> Head(@).id, pc |-> "reset"]>> \o Tail(@)],
                                  dev, ct.n + 1)
               IN  IF dev = "none" THEN ctorReturned(c) ELSE c
    /\ UNCHANGED <<imu, par, es, su, fs, al, pcl, flt, cfg, _enable, _dev, instance, now, timer,
                   _intialize_time_base, _ros_time_base, _camera_time_base,
                   _prev_camera_time_stamp, _is_frame_arrived, _seq,
                   _depth_aligned_seq, _aligned_depth_images, pc, cur, out,
                   nDispatch, lastEnter, fires>>

\* publishTopics as called by the activation on top of the stack, on the
\* object as it is now. setupDevice: get_info on an empty device throws, an
\* unknown module ends the process (ros::shutdown, exit). setupPublishers.
\* setupStreams: open on a sensor that is streaming throws, else the sensors
\* are opened and started and the constructor returns
publishTopics_step(c) ==
    LET id == Head(c.stack).id
        popped == [c EXCEPT !.stack = Tail(@)]
    IN  IF c.dev = "none" THEN [popped EXCEPT !.stack = <<>>, !.state = "threw"]
        ELSE IF c.dev = "badmodule"
        THEN [popped EXCEPT !.stack = <<>>, !.state = "exited", !.detected = @ \cup {id}]
        ELSE IF c.started
        THEN [popped EXCEPT !.stack = <<>>, !.state = "threw", !.setupBy = @ \cup {id}]
        ELSE ctorReturned([popped EXCEPT !.setupBy = @ \cup {id},
                                         !.startedBy = @ \cup {id},
                                         !.started = TRUE])

publishTopics ==
    /\ ct.state = "building"
    /\ ct.stack # <<>>
    /\ Head(ct.stack).pc = "publish"
    /\ ct' = publishTopics_step(ct)
    /\ UNCHANGED <<imu, par, es, su, fs, al, pcl, flt, cfg, _enable, _dev, instance, now, timer,
                   _intialize_time_base, _ros_time_base, _camera_time_base,
                   _prev_camera_time_stamp, _is_frame_arrived, _seq,
                   _depth_aligned_seq, _aligned_depth_images, pc, cur, out,
                   nDispatch, lastEnter, fires>>

InitCtor == Init

NextCtor ==
    \/ CtorFirst
    \/ createParamsManager
    \/ createParamsManager_resetNode
    \/ publishTopics

SpecCtor == InitCtor /\ [][NextCtor]_vars

\* ---------------------------------------------------------------- C24
\* C24: a constructor activation that found the device or one of its modules
\* unsupported sets up no publishers and starts no streams, so no frame is
\* ever dispatched on its behalf.
C24_IncompatibleIsTerminal ==
    /\ ct.detected \cap ct.setupBy = {}
    /\ ct.detected \cap ct.startedBy = {}

\* ---------------------------------------------------------------- C25
\* C25 as stated: an instance constructed while no device is attached has its
\* health timer inactive, and the timer does not fire while the instance has
\* no device.
C25_InactiveWithoutDevice ==
    [][(~_dev) => (~timer.started /\ fires' = fires)]_vars

\* C25 amended: an instance constructed while no device is attached has its
\* health timer started (autostart = !_dev); the timer stays started for as
\* long as the instance exists and its firing constructs the next instance.
C25_ActiveWithoutDevice ==
    [][(~_dev) => ( /\ timer.started
                    /\ fires' # fires => instance' = instance + 1 )]_vars

\* an instance without device whose timer is due
C25_Witness ==
    /\ ~_dev
    /\ timer.started
    /\ now >= timer.deadline
    /\ instance < MaxInstance

\* ---------------------------------------------------------------- C26
\* C26: after parameter loading synchronised delivery implies host-time
\* stamping, and point clouds or depth alignment imply synchronised delivery.
C26_ModeImplications ==
    /\ cfg.sync_frames => cfg.use_ros_time
    /\ (cfg.pointcloud \/ cfg.align_depth) => cfg.sync_frames

\* a dispatch completed in a configuration with depth alignment
C26_Witness ==
    /\ cfg.align_depth
    /\ ~cfg.pointcloud
    /\ cfg.sync_frames
    /\ cfg.use_ros_time
    /\ out.id > 0
    /\ out.th = "syncer"

\* ---------------------------------------------------------------- C27
\* C27 as stated: host-now stamping implies synchronised delivery; the node
\* never runs with host-now stamping and unsynchronised per-sensor callbacks.
C27_HostNowImpliesSync == cfg.use_ros_time => cfg.sync_frames

\* C27 amended: host-now stamping is selected exactly when enable_ros_time is
\* set or delivery is synchronised; it also runs with unsynchronised callbacks,
\* and then every completed dispatch is stamped with the host time of that
\* moment.
C27_HostNowFollowsParameter ==
    [][ /\ \A raw \in RawParams :
             cfg = getParameters(raw)
               => (cfg.use_ros_time <=> (raw.use_ros_time \/ cfg.sync_frames))
        /\ (cfg.use_ros_time /\ out' # out /\ out'.id > 0)
             => (~out'.aborted /\ out'.t = RosTimeNow) ]_vars

\* a sensor thread completed a dispatch with host-now stamping, unsynchronised
C27_Witness ==
    /\ cfg.use_ros_time
    /\ ~cfg.sync_frames
    /\ out.id > 0
    /\ out.th = "RGB Camera"
    /\ out.t = RosTimeNow

\* ---------------------------------------------------------------- C29
\* C29: a step that completes a dispatch of an instance with an initialised
\* clock base leaves the last seen device timestamp at or after the device
\* timestamp of the base, the offset of the dispatch is not negative, and the
\* dispatch re-based exactly when it was the first of its instance or its
\* device timestamp was smaller than that of the dispatch completed before it.
C29_BaseNotAfterLast ==
    [][ (out' # out /\ out'.id > 0 /\ _intialize_time_base')
          => /\ _prev_camera_time_stamp' >= _camera_time_base'
             /\ out'.d - _camera_time_base' >= 0
             /\ out'.rebase <=> (out.id = 0 \/ out.inst # instance \/ out'.d < out.d) ]_vars

\* ---------------------------------------------------------------- parallel rows
\* the integer corner coordinates a projected corner can have for extent n
Corners(n) == {ToPixel(c) : c \in HalfCoords(n)}

\* the target columns a source pixel writes in a target of one row of W pixels
Covered(p, W) ==
    IF p.raw = 0 \/ RectOutside(p.x0, 0, p.x1, 0, W, 1) THEN {}
    ELSE p.x0..p.x1

\* alignFrame for two source pixels A and B and a target of one row of W
\* pixels: B is the next column of A's row (sameRow) or the same column of the
\* next row. The columns of one row run in order; two rows run on two threads,
\* and for a target pixel both write, last[k] is the one whose store comes
\* last. sa, sb are the values the conversion to uint16_t yields, g what memory
\* outside the buffer reads as.
alignRows(W, bytes, A, B, sameRow, last, fac, sa, sb, g) ==
    LET covA == Covered(A, W)
        covB == Covered(B, W)
    IN  [phase |-> "done", W |-> W, bytes |-> bytes, A |-> A, B |-> B,
         sameRow |-> sameRow, last |-> last, fac |-> fac, covA |-> covA,
         covB |-> covB,
         img |-> [k \in 0..(W - 1) |->
                    IF ~InBuffer(k, bytes) THEN g
                    ELSE IF k \in covA \cap covB
                         THEN (IF sameRow \/ last[k] = "B" THEN sb ELSE sa)
                    ELSE IF k \in covA THEN sa
                    ELSE IF k \in covB THEN sb
                    ELSE 0]]

RowPixels(W) == [raw : RawValues, x0 : Corners(W), x1 : Corners(W)]

\* publishAlignedDepthToOthers calls alignFrame; the row loop runs under
\* "omp parallel for schedule(dynamic)"
alignRowsCall ==
    /\ _dev
    /\ cfg.align_depth
    /\ par = NoCall
    /\ \E fac \in DepthFactors, g \in {0, 7}, sameRow \in BOOLEAN :
         \E A \in RowPixels(MaxW + 1), B \in RowPixels(MaxW + 1) :
           \E sa \in OverflowOutcomes(Rescaled(A.raw, fac)),
              sb \in OverflowOutcomes(Rescaled(B.raw, fac)),
              last \in [Covered(A, MaxW + 1) \cap Covered(B, MaxW + 1) -> {"A", "B"}] :
             /\ A.x0 <= A.x1
             /\ B.x0 <= B.x1
             /\ par' = alignRows(MaxW + 1, AlignedBufferBytes(MaxW + 1, 1),
                                 A, B, sameRow, last, fac, sa, sb, g)
    /\ UNCHANGED <<imu, ct, es, su, fs, al, pcl, flt, cfg, _enable, _dev, instance, now,
                   timer, _intialize_time_base, _ros_time_base, _camera_time_base,
                   _prev_camera_time_stamp, _is_frame_arrived, _seq,
                   _depth_aligned_seq, _aligned_depth_images, pc, cur, out,
                   nDispatch, lastEnter, fires>>

\* SpecRows: one call of alignFrame with two nonempty or empty source pixels,
\* every pair of rectangles and every order of the stores of two rows.
InitRows == InitAlign

NextRows == alignRowsCall

SpecRows == InitRows /\ [][NextRows]_vars

\* ---------------------------------------------------------------- C30
\* C30: whatever the order of the stores of two parallel rows, a target pixel
\* ends as 0 when no rectangle covers it and otherwise as the rescaled depth of
\* a source pixel whose rectangle covers it; covered by exactly one source
\* pixel it has that pixel's rescaled depth; covered by two pixels of one row
\* it has the value of the later column.
C30_ParallelRows ==
    par.phase = "done"
    => \A k \in 0..(par.W - 1) :
         LET a == Rescaled(par.A.raw, par.fac)
             b == Rescaled(par.B.raw, par.fac)
             inA == k \in par.covA
             inB == k \in par.covB
         IN  /\ (~inA /\ ~inB) => par.img[k] = 0
             /\ (inA /\ ~inB) => par.img[k] = a
             /\ (inB /\ ~inA) => par.img[k] = b
             /\ (inA /\ inB) => par.img[k] \in {a, b}
             /\ (inA /\ inB /\ par.sameRow) => par.img[k] = b

\* ---------------------------------------------------------------- inertial samples
ImuStreams == {GYRO, ACCEL}

\* variant of ImuEnter that re-arms the health timer as a video dispatch does
ImuEnter_rearm(s, d, subscribed) ==
    /\ imu.pc = "idle"
    /\ _dev
    /\ imu.n < MaxImu
    /\ timer' = timer_setPeriod(timer, now)
    /\ imu' = IF ~_intialize_time_base
              THEN [NoSample EXCEPT !.n = imu.n + 1, !.inst = instance, !.stream = s,
                                    !.d = d, !.last = "dropped"]
              ELSE IF ~subscribed
              THEN [NoSample EXCEPT !.n = imu.n + 1, !.inst = instance, !.stream = s,
                                    !.d = d, !.last = "unsubscribed"]
              ELSE [NoSample EXCEPT !.n = imu.n + 1, !.inst = instance, !.stream = s,
                                    !.d = d, !.pc = "ros", !.cam = _camera_time_base,
                                    !.rosAtCam = _ros_time_base]
    /\ UNCHANGED <<par, ct, es, su, fs, al, pcl, flt, cfg, _enable, _dev, instance, now,
                   _intialize_time_base, _ros_time_base, _camera_time_base,
                   _prev_camera_time_stamp, _is_frame_arrived, _seq,
                   _depth_aligned_seq, _aligned_depth_images, pc, cur, out,
                   nDispatch, lastEnter, fires>>

\* the callback the motion module is started with, first part: the test of
\* _intialize_time_base, the subscriber test and the read of _camera_time_base
ImuEnter(s, d, subscribed) ==
    /\ imu.pc = "idle"
    /\ _dev
    /\ imu.n < MaxImu
    /\ imu' = IF ~_intialize_time_base
              THEN [NoSample EXCEPT !.n = imu.n + 1, !.inst = instance, !.stream = s,
                                    !.d = d, !.last = "dropped"]
              ELSE IF ~subscribed
              THEN [NoSample EXCEPT !.n = imu.n + 1, !.inst = instance, !.stream = s,
                                    !.d = d, !.last = "unsubscribed"]
              ELSE [NoSample EXCEPT !.n = imu.n + 1, !.inst = instance, !.stream = s,
                                    !.d = d, !.pc = "ros", !.cam = _camera_time_base,
                                    !.rosAtCam = _ros_time_base]
    /\ UNCHANGED <<par, ct, es, su, fs, al, pcl, flt, cfg, _enable, _dev, instance, now,
                   timer, _intialize_time_base, _ros_time_base, _camera_time_base,
                   _prev_camera_time_stamp, _is_frame_arrived, _seq,
                   _depth_aligned_seq, _aligned_depth_images, pc, cur, out,
                   nDispatch, lastEnter, fires>>

\* the callback, second part: the read of _ros_time_base, ros::Time t(...)
\* (which rejects a negative time), _seq[stream_index] += 1 and the publish
ImuStamp ==
    /\ imu.pc = "ros"
    /\ LET t == _ros_time_base + ElapsedCamera(imu.d, imu.cam)
       IN  IF t < 0
           THEN /\ imu' = [imu EXCEPT !.pc = "idle", !.ros = _ros_time_base,
                                      !.camAtRos = _camera_time_base, !.t = t,
                                      !.last = "thrown"]
                /\ _seq' = _seq
           ELSE /\ imu' = [imu EXCEPT !.pc = "idle", !.ros = _ros_time_base,
                                      !.camAtRos = _camera_time_base, !.t = t,
                                      !.seq = _seq[imu.stream] + 1,
                                      !.last = "published"]
                /\ _seq' = [_seq EXCEPT ![imu.stream] = @ + 1]
    /\ UNCHANGED <<par, ct, es, su, fs, al, pcl, flt, cfg, _enable, _dev, instance, now,
                   timer, _intialize_time_base, _ros_time_base, _camera_time_base,
                   _prev_camera_time_stamp, _is_frame_arrived,
                   _depth_aligned_seq, _aligned_depth_images, pc, cur, out,
                   nDispatch, lastEnter, fires>>

\* SpecImu: a device with a started motion module next to the image sensors,
\* synchronised video delivery (one video dispatch at a time, here of single
\* depth frames nobody subscribes to), the inertial callback on the motion
\* module's own thread, the health timer.
InitImu ==
    /\ InitCore
    /\ _dev
    /\ cfg.sync_frames
    /\ ~cfg.pointcloud
    /\ ~cfg.align_depth

\* a single depth frame handed to _frame_callback
DepthFrame == [frames |-> {DEPTH}, isFrameset |-> FALSE]

NextImu ==
    \/ \E d \in 0..MaxDev : CbEnter("syncer", DepthFrame, d)
    \/ CbSetInitialized("syncer")
    \/ CbRebase("syncer")
    \/ CbBody("syncer", {})
    \/ \E s \in ImuStreams, d \in 0..MaxDev, subscribed \in BOOLEAN : ImuEnter(s, d, subscribed)
    \/ ImuStamp
    \/ TimerFire
    \/ Tick

SpecImu == InitImu /\ [][NextImu]_vars

\* ---------------------------------------------------------------- C28
\* C28: the inertial callback runs only while no video dispatch is in progress,
\* and the (host base, device base) pair a stamped sample used was written by
\* one dispatch: both members were the clock base at one moment of the callback
\* and the host base is one a re-basing wrote.
C28_ImuUnderExclusion ==
    /\ imu.pc # "idle" => \A th \in Threads : pc[th] = "idle"
    /\ imu.last \in {"published", "thrown"}
         => /\ imu.ros # 0
            /\ imu.ros = imu.rosAtCam \/ imu.cam = imu.camAtRos

\* ---------------------------------------------------------------- corners
\* SpecCorner: one call of alignFrame on a target of MaxW x MaxH pixels with a
\* source pixel of raw value 25 and unit depth factor, every projection of its
\* two corners; the record keeps the projected corners next to the rectangle.
alignFrameCornerCall ==
    /\ _dev
    /\ cfg.align_depth
    /\ al = NoCall
    /\ \E px \in SourcePixels(MaxW, MaxH), g \in {0, 7} :
         /\ px.raw = 25
         /\ al' = alignFrame(MaxW, MaxH, AlignedBufferBytes(MaxW, MaxH),
                             px, <<1, 1>>, 25, g) @@ [px |-> px]
    /\ UNCHANGED <<imu, par, ct, es, su, fs, pcl, flt, cfg, _enable, _dev, instance, now,
                   timer, _intialize_time_base, _ros_time_base, _camera_time_base,
                   _prev_camera_time_stamp, _is_frame_arrived, _seq,
                   _depth_aligned_seq, _aligned_depth_images, pc, cur, out,
                   nDispatch, lastEnter, fires>>

InitCorner == InitAlign

NextCorner == alignFrameCornerCall

SpecCorner == InitCorner /\ [][NextCorner]_vars

\* ---------------------------------------------------------------- C31
\* C31: each corner of the rectangle is the projected coordinate rounded to
\* the nearest integer (a coordinate c / 2 with c even is that integer, with c
\* odd one of its two neighbours), also below zero; a corner that projects into
\* (-1.5, -0.5) becomes -1 and the source pixel writes nothing.
C31_RoundsToNearest ==
    al.phase = "done"
    => LET nearest(c, p) == IF c % 2 = 0 THEN p = c \div 2
                            ELSE p \in {(c - 1) \div 2, (c + 1) \div 2}
       IN  /\ nearest(al.px.x0, al.rect[1])
           /\ nearest(al.px.y0, al.rect[2])
           /\ nearest(al.px.x1, al.rect[3])
           /\ nearest(al.px.y1, al.rect[4])
           /\ (-2 \in {al.px.x0, al.px.y0, al.px.x1, al.px.y1})
                => (-1 \in {al.rect[1], al.rect[2], al.rect[3], al.rect[4]}
                    /\ al.written = {})

\* ---------------------------------------------------------------- C32
\* a projection with both coordinates inside a colour frame of Wc x Hc pixels
InsideColorFrame(px, Wc, Hc) ==
    /\ px.x.d > 0 /\ 0 <= px.x.n /\ px.x.n < Wc * px.x.d
    /\ px.y.d > 0 /\ 0 <= px.y.n /\ px.y.n < Hc * px.y.d

C33_ResetNeverOverlaps ==
    [][ instance' # instance
          => /\ \A th \in Threads : pc[th] = "idle"
             /\ imu.pc = "idle" ]_vars

\* ---------------------------------------------------------------- C34
\* C34: the stream setup of publishTopics runs at most once on the object that
\* ends up built, whatever the constructions before it found, and the
\* constructor activations nested through createParamsManager stay below the
\* deepest nesting explored.
C34_SetupAtMostOnce ==
    /\ Cardinality(ct.setupBy) <= 1
    /\ Len(ct.stack) < MaxNest

\* ---------------------------------------------------------------- C35
\* C35: a step of the inertial callback leaves the health timer as it is; the
\* timer changes only when a video dispatch starts or the node is
\* reconstructed; and the timer fires one timeout after the start of the last
\* video dispatch of the instance, whatever inertial samples arrived since.
C35_OnlyVideoRearms ==
    [][ /\ imu' # imu => timer' = timer
        /\ timer' # timer => (nDispatch' = nDispatch + 1 \/ instance' # instance)
        /\ (fires' # fires /\ lastEnter >= 0) => now = lastEnter + Timeout ]_vars

\* the first instance dispatched a video frame, later published an inertial
\* sample, and its timer fired: the second instance exists
C35_Witness ==
    /\ instance = 2
    /\ fires[1] = 1
    /\ imu.inst = 1
    /\ imu.last = "published"
    /\ now >= Timeout + 1

\* ---------------------------------------------------------------- C36
\* C36: when a dispatch ends with an exception, the timer has been re-armed
\* from the time the dispatch started, the thread is back idle to take the
\* next frame, the instance is not reconstructed by that step, nothing of the
\* instance's counters and buffers is changed by the aborted body, and no
\* firing comes sooner than one timeout after the start of the last dispatch,
\* aborted or not.
C36_AbortStillRearms ==
    [][ /\ (out' # out /\ out'.id > 0 /\ out'.aborted)
          => /\ timer.started
             /\ timer'.deadline = now + Timeout
             /\ pc'[out'.th] = "idle"
             /\ instance' = instance
             /\ fires' = fires
             /\ _seq' = _seq
        /\ (fires' # fires /\ lastEnter >= 0) => now >= lastEnter + Timeout ]_vars

\* a dispatch that started after time 0 was aborted and the timer stands one
\* timeout after its start
C36_Witness ==
    /\ out.id > 0
    /\ out.aborted
    /\ now > 0
    /\ lastEnter = now
    /\ timer.started
    /\ timer.deadline = now + Timeout
    /\ pc[out.th] = "idle"
    /\ instance = 1

\* ---------------------------------------------------------------- C37
\* C37: an inertial sample delivered while no video dispatch of the instance
\* has written the clock base yet is dropped and changes no sequence counter;
\* a published sample is stamped host base + (d - device base) with the clock
\* base as it is when the sample is stamped, and that base is one a video
\* dispatch wrote.
C37_ImuDroppedBeforeBase ==
    [][ imu' # imu
          => /\ (imu.pc = "idle" /\ _ros_time_base = 0)
                  => (imu'.last = "dropped" /\ imu'.pc = "idle" /\ _seq' = _seq)
             /\ imu'.last = "dropped" => _seq' = _seq
             /\ (imu.pc = "ros" /\ imu'.last = "published")
                  => /\ _ros_time_base # 0
                     /\ imu'.t = _ros_time_base + ElapsedCamera(imu.d, _camera_time_base)
                     /\ _seq' = [_seq EXCEPT ![imu.stream] = @ + 1] ]_vars

\* ---------------------------------------------------------------- C38
\* C38: every message a dispatch publishes carries the one host timestamp t
\* the dispatch computed at its start; the images of the streams come first, in
\* the order of the frameset, then the aligned depth images, then the point
\* clouds; and the messages are exactly the subscribed images, aligned images
\* and clouds of the dispatch.
C38_OneStampInOrder ==
    fs.phase = "done"
    => LET rank(m) == CASE m.topic[1] = "image" -> 1
                        [] m.topic[1] = "aligned" -> 2
                        [] OTHER -> 3
       IN  /\ \A i \in 1..Len(fs.log) : fs.log[i].stamp = fs.t
           /\ \A i \in 1..Len(fs.log) : \A j \in (i + 1)..Len(fs.log) :
                rank(fs.log[i]) <= rank(fs.log[j])
           /\ {fs.log[i].topic : i \in 1..Len(fs.log)}
                = {Image(k) : k \in fs.published}
                  \cup {Aligned(k) : k \in fs.aligned} \cup fs.clouds
           /\ Len(fs.log) = Cardinality(fs.published) + Cardinality(fs.aligned)
                            + Cardinality(fs.clouds)

\* a frameset of colour and depth with every topic subscribed: two images, the
\* aligned depth image and both clouds, in that order
C38_Witness ==
    /\ fs.phase = "done"
    /\ fs.frames = <<COLOR, DEPTH>>
    /\ Len(fs.log) = 5
    /\ fs.log[1].topic = Image(COLOR)
    /\ fs.log[2].topic = Image(DEPTH)
    /\ fs.log[3].topic = Aligned(COLOR)
    /\ fs.log[4].topic = XYZRGB
    /\ fs.log[5].topic = XYZ
    /\ fs.log[5].stamp = fs.log[1].stamp

\* ---------------------------------------------------------------- stopped streams
\* the enableStreams service called again and again on a node whose device has
\* a Stereo Module and an RGB Camera; the record keeps the instance the call
\* was made on
enableStreamsService ==
    /\ _dev
    /\ (IF es = NoCall THEN 0 ELSE es.calls) < MaxCalls
    /\ \E data \in BOOLEAN, mods \in {Modules} :
         \E failing \in SUBSET (SensorKeys(mods) \cap {DEPTH, COLOR, FISHEYE}) :
           LET res == enableStreams(data, SensorKeys(mods), failing) IN
           /\ es' = [phase |-> "done", data |-> data, sensors |-> SensorKeys(mods),
                     failing |-> failing, success |-> res.success,
                     message |-> res.message, attempted |-> res.attempted,
                     inst |-> instance,
                     calls |-> (IF es = NoCall THEN 0 ELSE es.calls) + 1]
           /\ timer' = timerAfter(timer, res.timerOps, now)
    /\ UNCHANGED <<imu, par, ct, su, fs, al, pcl, flt, cfg, _enable, _dev, instance, now,
                   _intialize_time_base, _ros_time_base, _camera_time_base,
                   _prev_camera_time_stamp, _is_frame_arrived, _seq,
                   _depth_aligned_seq, _aligned_depth_images, pc, cur, out,
                   nDispatch, lastEnter, fires>>

\* SpecWatch: the service, the health timer, the clock, and video dispatches
\* of single depth frames through the syncer (a sensor whose stop failed keeps
\* delivering).
InitWatch ==
    /\ InitCore
    /\ _dev
    /\ cfg.sync_frames
    /\ ~cfg.pointcloud
    /\ ~cfg.align_depth

NextWatch ==
    \/ enableStreamsService
    \/ \E d \in 0..MaxDev : CbEnter("syncer", DepthFrame, d)
    \/ CbSetInitialized("syncer")
    \/ CbRebase("syncer")
    \/ CbBody("syncer", {})
    \/ TimerFire
    \/ Tick

SpecWatch == InitWatch /\ [][NextWatch]_vars

\* ---------------------------------------------------------------- C39
\* C39: while the last call of enableStreams on the current instance was a
\* stop that reached at least one image sensor, the health timer is stopped
\* and no step fires it or reconstructs the node, whether or not the stop of a
\* sensor failed; while the last call was a start that reached a sensor, the
\* timer is started.
C39_StoppedStaysStopped ==
    [][ /\ (es.phase = "done" /\ es.inst = instance /\ ~es.data /\ es.attempted # <<>>)
          => /\ ~timer.started
             /\ fires' = fires
             /\ instance' = instance
        /\ (es.phase = "done" /\ es.inst = instance /\ es.data /\ es.attempted # <<>>)
          => timer.started ]_vars

\* the streams were stopped, with the stop of the depth sensor failing, on the
\* first instance; time has run to the end and the timer has not fired
C39_Witness ==
    /\ es.phase = "done"
    /\ ~es.data
    /\ es.inst = 1
    /\ DEPTH \in es.failing
    /\ ~es.success
    /\ instance = 1
    /\ now = MaxTime
    /\ ~timer.started
    /\ fires[1] = 0

====
